---- MODULE Spec2Model ----
(***************************************************************************)
(* A model of the RPI landmarks chatbot (src/chatbot.py, src/main.py):     *)
(* the alias resolver _fuzzy_match_landmark, the facet renderers, the      *)
(* follow-up handler and the turn pipeline process_input, with the single  *)
(* mutable conversation context.                                           *)
(*                                                                         *)
(* Texts are TLA+ strings; a Python index i of a text is position i+1.     *)
(* A dict is a function whose DOMAIN is its set of keys, {} is <<>>, and   *)
(* a list is a sequence.                                                   *)
(***************************************************************************)
EXTENDS Integers, Sequences, FiniteSets, TLC

VARIABLES
    knowledge,   \* self.knowledge['landmarks']: landmark key -> record
    context,     \* self.context: current_topic, current_subtopic, conversation_history
    turn,        \* what the last process_input call did and returned
    pc,          \* position of the driver of the specification
    arg,         \* argument of the pure function under check
    ret          \* its return value and the locals it leaves behind

vars == <<knowledge, context, turn, pc, arg, ret>>

\* Python's None where a string is expected, and where a dict is expected
None == "<None>"
NoneDict == [none |-> TRUE]

(***************************************************************************)
(* Python string primitives                                                *)
(***************************************************************************)

\* s[i:j] for 0 <= i, clipped like a Python slice
Slice(s, i, j) ==
    LET hi == IF j > Len(s) THEN Len(s) ELSE j
    IN  IF i >= hi THEN "" ELSE SubSeq(s, i + 1, hi)

\* s[i]
CharAt(s, i) == SubSeq(s, i + 1, i + 1)

\* sub in s
Contains(s, sub) ==
    \E i \in 0..(Len(s) - Len(sub)) : Slice(s, i, i + Len(sub)) = sub

\* s.find(sub): least index where sub occurs, -1 if none
Find(s, sub) ==
    LET hits == {i \in 0..(Len(s) - Len(sub)) : Slice(s, i, i + Len(sub)) = sub}
    IN  IF hits = {} THEN -1 ELSE CHOOSE i \in hits : \A j \in hits : i <= j

\* s.replace(old, new), old non-empty: leftmost non-overlapping occurrences
RECURSIVE Replace(_, _, _)
ReplaceAt(s, old, new, at) ==
    IF at = -1 THEN s
    ELSE Slice(s, 0, at) \o new
         \o Replace(Slice(s, at + Len(old), Len(s)), old, new)

Replace(s, old, new) == ReplaceAt(s, old, new, Find(s, old))

UpperToLower ==
    [A |-> "a", B |-> "b", C |-> "c", D |-> "d", E |-> "e", F |-> "f",
     G |-> "g", H |-> "h", I |-> "i", J |-> "j", K |-> "k", L |-> "l",
     M |-> "m", N |-> "n", O |-> "o", P |-> "p", Q |-> "q", R |-> "r",
     S |-> "s", T |-> "t", U |-> "u", V |-> "v", W |-> "w", X |-> "x",
     Y |-> "y", Z |-> "z"]

\* s.lower()
RECURSIVE Lower(_)
Lower(s) ==
    IF s = "" THEN ""
    ELSE LET c == CharAt(s, 0)
         IN  (IF c \in DOMAIN UpperToLower THEN UpperToLower[c] ELSE c)
             \o Lower(Slice(s, 1, Len(s)))

\* s.strip(): the texts of the model have the space as their only whitespace
RECURSIVE Strip(_)
Strip(s) ==
    IF s = "" THEN ""
    ELSE IF CharAt(s, 0) = " " THEN Strip(Slice(s, 1, Len(s)))
    ELSE IF CharAt(s, Len(s) - 1) = " " THEN Strip(Slice(s, 0, Len(s) - 1))
    ELSE s

\* sep.join(parts)
RECURSIVE Join(_, _)
Join(sep, parts) ==
    IF parts = <<>> THEN ""
    ELSE IF Len(parts) = 1 THEN parts[1]
    ELSE parts[1] \o sep \o Join(sep, Tail(parts))

(***************************************************************************)
(* fuzz.partial_ratio (fuzzywuzzy, imported at src/chatbot.py:5) on its    *)
(* pure-Python backend, difflib.SequenceMatcher without junk               *)
(***************************************************************************)

\* length of the common run of a[i:ahi] and b[j:bhi]
RECURSIVE RunLen(_, _, _, _, _, _)
RunLen(a, i, ahi, b, j, bhi) ==
    IF i >= ahi \/ j >= bhi \/ CharAt(a, i) # CharAt(b, j) THEN 0
    ELSE 1 + RunLen(a, i + 1, ahi, b, j + 1, bhi)

\* the blocks <<i, j, size>> that start where a[i] = b[j]
Runs(a, alo, ahi, b, blo, bhi) ==
    {<<p[1], p[2], RunLen(a, p[1], ahi, b, p[2], bhi)>> :
        p \in {q \in (alo..(ahi - 1)) \X (blo..(bhi - 1)) :
                  CharAt(a, q[1]) = CharAt(b, q[2])}}

\* the longest block, of those the one starting earliest in a, of those the
\* earliest in b
Longest(runs, alo, blo) ==
    IF runs = {} THEN <<alo, blo, 0>>
    ELSE CHOOSE p \in runs : \A q \in runs :
            \/ p[3] > q[3]
            \/ /\ p[3] = q[3]
               /\ \/ p[1] < q[1]
                  \/ p[1] = q[1] /\ p[2] <= q[2]

\* SequenceMatcher.find_longest_match(alo, ahi, blo, bhi)
find_longest_match(a, alo, ahi, b, blo, bhi) ==
    Longest(Runs(a, alo, ahi, b, blo, bhi), alo, blo)

\* SequenceMatcher.get_matching_blocks() before the closing sentinel: the
\* longest match m, then the same to its left and to its right.  (difflib then
\* merges adjacent blocks, which changes neither their offsets j - i nor the
\* number of matched characters, the two things read below.)
RECURSIVE matching_blocks(_, _, _, _, _, _)
AroundMatch(a, alo, ahi, b, blo, bhi, m) ==
    IF m[3] = 0 THEN <<>>
    ELSE matching_blocks(a, alo, m[1], b, blo, m[2])
         \o <<m>>
         \o matching_blocks(a, m[1] + m[3], ahi, b, m[2] + m[3], bhi)

matching_blocks(a, alo, ahi, b, blo, bhi) ==
    AroundMatch(a, alo, ahi, b, blo, bhi,
                find_longest_match(a, alo, ahi, b, blo, bhi))

get_matching_blocks(a, b) ==
    matching_blocks(a, 0, Len(a), b, 0, Len(b)) \o <<<<Len(a), Len(b), 0>>>>

RECURSIVE SumSizes(_)
SumSizes(blocks) ==
    IF blocks = <<>> THEN 0 ELSE blocks[1][3] + SumSizes(Tail(blocks))

\* SequenceMatcher.ratio() = 2.0 * matches / (len(a) + len(b)), kept as the
\* fraction <<2 * matches, len(a) + len(b)>>; 1.0 for two empty sequences
ratio(a, b) ==
    IF Len(a) + Len(b) = 0 THEN <<1, 1>>
    ELSE <<2 * SumSizes(get_matching_blocks(a, b)), Len(a) + Len(b)>>

\* utils.intr(100 * r) = int(round(100 * r)), round-half-to-even
intr100(r) ==
    IF 2 * ((100 * r[1]) % r[2]) > r[2] THEN ((100 * r[1]) \div r[2]) + 1
    ELSE IF 2 * ((100 * r[1]) % r[2]) < r[2] THEN (100 * r[1]) \div r[2]
    ELSE IF ((100 * r[1]) \div r[2]) % 2 = 0 THEN (100 * r[1]) \div r[2]
    ELSE ((100 * r[1]) \div r[2]) + 1

\* r1 >= r2 for fractions with positive denominators
FracGeq(r1, r2) == r1[1] * r2[2] >= r2[1] * r1[2]

\* the ratio of the shorter text against the window of the longer one that
\* the block lines up with
WindowRatio(shorter, longer, block) ==
    ratio(shorter,
          Slice(longer,
                IF block[2] - block[1] > 0 THEN block[2] - block[1] ELSE 0,
                (IF block[2] - block[1] > 0 THEN block[2] - block[1] ELSE 0)
                    + Len(shorter)))

\* 100 as soon as one ratio exceeds .995, else the best ratio rounded
TopScore(scores) ==
    IF \E r \in scores : 1000 * r[1] > 995 * r[2] THEN 100
    ELSE intr100(CHOOSE r \in scores : \A q \in scores : FracGeq(r, q))

PartialRatioOf(shorter, longer, blocks) ==
    TopScore({WindowRatio(shorter, longer, blocks[n]) : n \in DOMAIN blocks})

\* fuzz.partial_ratio
partial_ratio(s1, s2) ==
    IF Len(s1) = 0 \/ Len(s2) = 0 THEN 0       \* utils.check_empty_string
    ELSE IF Len(s1) <= Len(s2)
    THEN PartialRatioOf(s1, s2, get_matching_blocks(s1, s2))
    ELSE PartialRatioOf(s2, s1, get_matching_blocks(s2, s1))

(***************************************************************************)
(* The resolver: RPIChatbot._fuzzy_match_landmark                          *)
(***************************************************************************)

\* the alias dictionary, in insertion (= iteration) order
landmarks ==
    << <<"russell sage", "russell_sage">>,
       <<"sage lab", "russell_sage">>,
       <<"sage laboratory", "russell_sage">>,
       <<"russel", "russell_sage">>,
       <<"russell", "russell_sage">>,
       <<"sage", "russell_sage">>,
       <<"rsl", "russell_sage">>,
       <<"west hall", "west_hall">>,
       <<"west", "west_hall">>,
       <<"wh", "west_hall">>,
       <<"rpi union", "rpi_union">>,
       <<"student union", "rpi_union">>,
       <<"union", "rpi_union">>,
       <<"campus union", "rpi_union">>,
       <<"folsom", "folsom_library">>,
       <<"library", "folsom_library">>,
       <<"folsom lib", "folsom_library">>,
       <<"folsum", "folsom_library">>,
       <<"folsam", "folsom_library">>,
       <<"lib", "folsom_library">>,
       <<"empac", "empac">>,
       <<"experimental media", "empac">>,
       <<"performing arts", "empac">>,
       <<"arts center", "empac">>,
       <<"experimental", "empac">>,
       <<"media center", "empac">>
    >>

Threshold == 70

\* Normalize without the lower() of line 230
NormalizeNoLower(query) ==
    Strip(Replace(Replace(Replace(Strip(query),
        "tell me about", ""), "what about", ""), "where is", ""))

\* query.lower().strip(), then the three filler phrases removed, then strip()
Normalize(query) ==
    Strip(Replace(Replace(Replace(Strip(Lower(query)),
        "tell me about", ""), "what about", ""), "where is", ""))

\* ExactHit without the "key in query" half of line 238
ExactHitOneWay(query, n) == Contains(landmarks[n][1], query)

\* the condition of the first loop for the n-th alias
ExactHit(query, n) ==
    Contains(landmarks[n][1], query) \/ Contains(query, landmarks[n][1])

\* FuzzyStep without the "ratio > 70" half of line 248
FuzzyStepNoThreshold(loop, n, r) ==
    IF r > loop.best_ratio
    THEN [ratios |-> Append(loop.ratios, r), best_ratio |-> r,
          best_match |-> landmarks[n][2]]
    ELSE [loop EXCEPT !.ratios = Append(@, r)]

\* one pass of the second loop, for the n-th alias with score r
FuzzyStep(loop, n, r) ==
    IF r > loop.best_ratio /\ r > Threshold
    THEN [ratios |-> Append(loop.ratios, r), best_ratio |-> r,
          best_match |-> landmarks[n][2]]
    ELSE [loop EXCEPT !.ratios = Append(@, r)]

\* the second loop from the n-th alias on: [ratios, best_ratio, best_match]
RECURSIVE FuzzyLoop(_, _, _)
FuzzyLoop(query, n, loop) ==
    IF n > Len(landmarks) THEN loop
    ELSE FuzzyLoop(query, n + 1,
                   FuzzyStep(loop, n, partial_ratio(query, landmarks[n][1])))

\* what follows the second loop
FuzzyResult(query, loop) ==
    [result |-> IF loop.best_match # None
                THEN [landmark |-> loop.best_match, is_fuzzy |-> TRUE]
                ELSE NoneDict,
     query |-> query, ratios |-> loop.ratios]

\* the first loop, given the set of aliases its condition accepts, and the rest
MatchQuery(query, hits) ==
    IF hits # {}
    THEN [result |-> [landmark |->
                         landmarks[CHOOSE n \in hits : \A k \in hits : n <= k][2],
                      is_fuzzy |-> FALSE],
          query |-> query, ratios |-> <<>>]
    ELSE FuzzyResult(query,
            FuzzyLoop(query, 1,
                [ratios |-> <<>>, best_ratio |-> 0, best_match |-> None]))

ExactHits(query) == {n \in DOMAIN landmarks : ExactHit(query, n)}

\* _fuzzy_match_landmark with the locals it leaves behind: result is the
\* returned dict or NoneDict, query the normalized text, ratios the scores
\* the second loop computed
FuzzyMatchRun(text) == MatchQuery(Normalize(text), ExactHits(Normalize(text)))

\* RPIChatbot._fuzzy_match_landmark
_fuzzy_match_landmark(text) == FuzzyMatchRun(text).result

(***************************************************************************)
(* Records of the knowledge store (data/knowledge_base.json as json.load   *)
(* returns it).  Where the code tests isinstance(v, dict), a JSON string s *)
(* is the boxed value Str(s), so that the test has something to read.      *)
(***************************************************************************)

Str(s) == [str |-> s]

\* isinstance(v, dict)
IsDict(v) == "str" \notin DOMAIN v

\* d.get(key, default)
Get(d, key, default) == IF key \in DOMAIN d THEN d[key] ELSE default

EmptyDict == [k \in {} |-> k]

(***************************************************************************)
(* The renderers                                                           *)
(***************************************************************************)

TroubleMessage ==
    "I have some information about that landmark, but I'm having trouble accessing it right now."

\* RPIChatbot._generate_basic_response
_generate_basic_response(landmark, info) ==
    IF DOMAIN info = {} THEN TroubleMessage
    ELSE
    LET name == Get(info, "name", "this landmark")
        date == IF "built" \in DOMAIN info
                THEN <<name \o " was built in " \o info.built \o ".">>
                ELSE IF "established" \in DOMAIN info
                THEN <<name \o " was established in " \o info.established \o ".">>
                ELSE IF "dedicated" \in DOMAIN info
                THEN <<name \o " was dedicated in " \o info.dedicated \o ".">>
                ELSE <<>>
        signif == IF "significance" \in DOMAIN info
                  THEN <<"It is notable for being " \o info.significance \o ".">>
                  ELSE <<>>
        prompt == IF landmark = "rpi_union"
                  THEN <<"Would you like to know more about its student activities, events, or facilities?">>
                  ELSE <<"Would you like to know more about its history, architecture, or current use?">>
    IN  Join(" ", date \o signif \o prompt)

\* the timeline loop: one part "- year: event" per entry
RECURSIVE TimelineParts(_)
TimelineParts(events) ==
    IF events = <<>> THEN <<>>
    ELSE <<"- " \o events[1].year \o ": " \o events[1].event>>
         \o TimelineParts(Tail(events))

\* HistoryParts with the namesake read from the history sub-record
HistoryPartsNamesakeInHistory(info) ==
    IF "history" \notin DOMAIN info THEN <<>>
    ELSE (IF "evolution" \in DOMAIN info.history
          THEN <<info.history.evolution>> ELSE <<>>)
         \o (IF "origins" \in DOMAIN info.history
             THEN <<"Its origins date back to " \o info.history.origins \o ".">>
             ELSE <<>>)
         \o (IF "original_purpose" \in DOMAIN info.history
             THEN <<Get(info, "name", "This landmark")
                    \o "'s original purpose was as "
                    \o info.history.original_purpose \o ".">>
             ELSE <<>>)
         \o (IF "builder" \in DOMAIN info.history
             THEN <<"It was built by " \o info.history.builder \o ".">>
             ELSE <<>>)
         \o (IF "timeline" \in DOMAIN info.history
             THEN <<"Key events in its history include:">>
                  \o TimelineParts(info.history.timeline)
             ELSE <<>>)
         \o (IF "significance" \in DOMAIN info.history
             THEN <<"It is historically significant as "
                    \o info.history.significance \o ".">>
             ELSE <<>>)
         \o (IF "namesake" \in DOMAIN info.history
             THEN <<"It was named after " \o info.history.namesake.name>>
             ELSE <<>>)

\* response_parts of RPIChatbot._get_history_info when it reaches line 342
HistoryParts(info) ==
    LET name == Get(info, "name", "This landmark")
        If(cond, parts) == IF cond THEN parts ELSE <<>>
    IN  IF "history" \notin DOMAIN info THEN <<>>
        ELSE
        LET history == info.history
            has(f) == f \in DOMAIN history
        IN  If(has("evolution"), <<history.evolution>>)
            \o If(has("origins"),
                  <<"Its origins date back to " \o history.origins \o ".">>)
            \o If(has("original_purpose"),
                  <<name \o "'s original purpose was as "
                    \o history.original_purpose \o ".">>)
            \o If(has("builder"), <<"It was built by " \o history.builder \o ".">>)
            \o If(has("timeline"),
                  <<"Key events in its history include:">>
                  \o TimelineParts(history.timeline))
            \o If(has("significance"),
                  <<"It is historically significant as "
                    \o history.significance \o ".">>)
            \o If("namesake" \in DOMAIN info /\ IsDict(info.namesake),
                  <<"It was named after " \o info.namesake.name>>
                  \o If("role" \in DOMAIN info.namesake,
                        <<"who was " \o info.namesake.role>>)
                  \o If("years" \in DOMAIN info.namesake,
                        <<"from " \o info.namesake.years>>))

HistoryApology(name) ==
    "I don't have detailed historical information about " \o name
    \o ", but you can ask about its architecture or current use."

\* RPIChatbot._get_history_info
_get_history_info(info) ==
    LET response_parts == HistoryParts(info)
    IN  IF response_parts = <<>>
        THEN HistoryApology(Get(info, "name", "This landmark"))
        ELSE Replace(Join(" ", response_parts), "..", ".") \o "."

\* RPIChatbot._get_architecture_info
_get_architecture_info(info) ==
    LET name == Get(info, "name", "This landmark")
        If(cond, parts) == IF cond THEN parts ELSE <<>>
        response_parts ==
            IF "architecture" \notin DOMAIN info THEN <<>>
            ELSE LET arch == info.architecture
                 IN  If("style" \in DOMAIN arch,
                        <<name \o " features " \o arch.style \o " architecture.">>)
                     \o If("features" \in DOMAIN arch,
                        <<"Notable architectural features include: "
                          \o Join(", ", arch.features) \o ".">>)
                     \o If("architect" \in DOMAIN arch,
                        <<"It was designed by " \o arch.architect \o ".">>)
    IN  IF response_parts = <<>>
        THEN "I don't have detailed architectural information about " \o name
             \o ", but you can ask about its history or current use."
        ELSE Join(" ", response_parts)

\* RPIChatbot._get_current_use_info
_get_current_use_info(info) ==
    LET name == Get(info, "name", "This landmark")
        If(cond, parts) == IF cond THEN parts ELSE <<>>
        standard ==
            IF "current_use" \in DOMAIN info /\ IsDict(info.current_use)
            THEN LET current == info.current_use
                 IN  (IF "departments" \in DOMAIN current
                      THEN <<name \o " currently houses "
                             \o Join(", ", current.departments) \o ".">>
                      ELSE IF "department" \in DOMAIN current
                      THEN <<name \o " currently houses the "
                             \o current.department \o ".">>
                      ELSE <<>>)
                     \o If("facilities" \in DOMAIN current,
                           <<"Its facilities include: "
                             \o Join(", ", current.facilities) \o ".">>)
            ELSE <<>>
        union ==
            IF "features" \in DOMAIN info /\ IsDict(info.features)
            THEN LET features == info.features
                 IN  (IF "student_activities" \in DOMAIN features
                      THEN LET activities == features.student_activities
                           IN  If("clubs" \in DOMAIN activities,
                                  <<"It hosts " \o activities.clubs \o ".">>)
                               \o If("types" \in DOMAIN activities,
                                  <<"These include "
                                    \o Join(", ", activities.types) \o ".">>)
                      ELSE <<>>)
                     \o If("facilities" \in DOMAIN features,
                           <<"Facilities include: "
                             \o Join(", ", features.facilities) \o ".">>)
            ELSE <<>>
        events == If("events" \in DOMAIN info,
                     <<"Regular events include: " \o Join(", ", info.events) \o ".">>)
        management == If("management" \in DOMAIN info,
                         <<"It is a " \o info.management \o ".">>)
        response_parts == standard \o union \o events \o management
    IN  IF response_parts = <<>>
        THEN "I don't have detailed information about " \o name
             \o "'s current use, but you can ask about its history or architecture."
        ELSE Join(" ", response_parts)

\* RPIChatbot._get_events_info
_get_events_info(info) ==
    LET name == Get(info, "name", "The Union")
        If(cond, parts) == IF cond THEN parts ELSE <<>>
        events == If("events" \in DOMAIN info,
                     <<name \o " hosts various events including: "
                       \o Join(", ", info.events) \o ".">>)
        acts ==
            IF "features" \in DOMAIN info
               /\ "student_activities" \in DOMAIN info.features
            THEN LET activities == info.features.student_activities
                 IN  If("clubs" \in DOMAIN activities,
                        <<"It supports " \o activities.clubs \o ".">>)
                     \o If("types" \in DOMAIN activities,
                        <<"These include " \o Join(", ", activities.types) \o ".">>)
            ELSE <<>>
    IN  Join(" ", events \o acts)

\* RPIChatbot._get_facilities_info
_get_facilities_info(info) ==
    LET name == Get(info, "name", "The Union")
    IN  IF "features" \in DOMAIN info /\ "facilities" \in DOMAIN info.features
        THEN name \o "'s facilities include: "
             \o Join(", ", info.features.facilities) \o "."
        ELSE ""

(***************************************************************************)
(* The follow-up handler and the turn pipeline                             *)
(***************************************************************************)

\* any(word in query for word in words)
AnyIn(query, words) == \E w \in words : Contains(query, w)

\* FacetOf without the history branch of lines 280-281
FacetOfUnionNoHistory(topic, query) ==
    IF topic = "rpi_union"
    THEN IF AnyIn(query, {"event", "activities", "programs"}) THEN "events"
         ELSE IF AnyIn(query, {"facilities", "rooms", "spaces"}) THEN "facilities"
         ELSE None
    ELSE IF AnyIn(query, {"history", "background", "past", "origin"})
         THEN "history"
         ELSE IF AnyIn(query, {"architecture", "design", "building", "structure"})
         THEN "architecture"
         ELSE IF AnyIn(query, {"current", "now", "today", "use", "purpose"})
         THEN "current_use"
         ELSE None

\* the branch of _handle_followup that the lowercased text takes
FacetOf(topic, query) ==
    IF topic = "rpi_union"
    THEN IF AnyIn(query, {"event", "activities", "programs"}) THEN "events"
         ELSE IF AnyIn(query, {"facilities", "rooms", "spaces"}) THEN "facilities"
         ELSE IF AnyIn(query, {"history", "background", "past"}) THEN "history"
         ELSE None
    ELSE IF AnyIn(query, {"history", "background", "past", "origin"})
         THEN "history"
         ELSE IF AnyIn(query, {"architecture", "design", "building", "structure"})
         THEN "architecture"
         ELSE IF AnyIn(query, {"current", "now", "today", "use", "purpose"})
         THEN "current_use"
         ELSE None

FollowupFacet(topic, user_input) == FacetOf(topic, Lower(user_input))

\* the renderer each branch returns
RenderFacet(facet, info) ==
    CASE facet = "events"       -> _get_events_info(info)
      [] facet = "facilities"   -> _get_facilities_info(info)
      [] facet = "history"      -> _get_history_info(info)
      [] facet = "architecture" -> _get_architecture_info(info)
      [] facet = "current_use"  -> _get_current_use_info(info)
      [] OTHER                  -> None

\* RPIChatbot._handle_followup: the response, or None
_handle_followup(kn, topic, user_input) ==
    RenderFacet(FollowupFacet(topic, user_input), Get(kn, topic, EmptyDict))

FallbackMessage ==
    "I'm not sure which RPI landmark you're asking about. Could you specify one of: Russell Sage Laboratory, West Hall, RPI Union, Folsom Library, or EMPAC?"

(* The reply of the external service to openai.ChatCompletion.create:      *)
(*   [kind |-> "error"]               the call raises                      *)
(*   [kind |-> "text"]                the content is not JSON              *)
(*   [kind |-> "null"]                the content is the JSON null         *)
(*   [kind |-> "object", value |-> d] the content is the JSON object d     *)
\* RPIChatbot._analyze_noisy_input: the dict returned, NoneDict for None
_analyze_noisy_input(reply) ==
    CASE reply.kind = "error"  -> EmptyDict     \* except Exception: return {}
      [] reply.kind = "text"   -> EmptyDict     \* json.loads raises
      [] reply.kind = "null"   -> NoneDict
      [] reply.kind = "object" -> reply.value

\* _handle_noisy_input with the assignment of line 141 moved above line 139
HandleNoisyTopicFirst(kn, topic, original_input, detected_landmark) ==
    IF detected_landmark \notin DOMAIN kn
       \/ "name" \notin DOMAIN kn[detected_landmark]
    THEN [raised |-> "KeyError", topic |-> detected_landmark, response |-> None]
    ELSE [raised |-> None, topic |-> detected_landmark,
          response |-> "I think you might be referring to "
                       \o kn[detected_landmark].name \o ". "
                       \o _generate_basic_response(detected_landmark,
                                                   kn[detected_landmark])]

\* RPIChatbot._handle_noisy_input: [raised, topic, response]; the topic is
\* assigned at line 141, after the name lookup of line 139
_handle_noisy_input(kn, topic, original_input, detected_landmark) ==
    IF detected_landmark \notin DOMAIN kn
       \/ "name" \notin DOMAIN kn[detected_landmark]
    THEN [raised |-> "KeyError", topic |-> topic, response |-> None]
    ELSE [raised |-> None, topic |-> detected_landmark,
          response |-> "I think you might be referring to "
                       \o kn[detected_landmark].name \o ". "
                       \o _generate_basic_response(detected_landmark,
                                                   kn[detected_landmark])]

\* the except clause of lines 79-80 around the call of line 78
CaughtNoisy(h) ==
    IF h.raised # None
    THEN [answered |-> FALSE, topic |-> h.topic, response |-> None]
    ELSE [answered |-> TRUE, topic |-> h.topic, response |-> h.response]

\* the try block of lines 75-80 on the analysis: [answered, topic, response]
NoisyAttempt(kn, topic, gpt_analysis) ==
    IF gpt_analysis = NoneDict                          \* AttributeError, caught
    THEN [answered |-> FALSE, topic |-> topic, response |-> None]
    ELSE IF Get(gpt_analysis, "landmark", None) = None
    THEN [answered |-> FALSE, topic |-> topic, response |-> None]
    ELSE IF "original" \notin DOMAIN gpt_analysis       \* KeyError, caught
    THEN [answered |-> FALSE, topic |-> topic, response |-> None]
    ELSE CaughtNoisy(_handle_noisy_input(kn, topic, gpt_analysis.original,
                                         gpt_analysis.landmark))

\* the lines typed at the console prompt, as input() returns them
ConsoleLines ==
    {"tell me about the union", "what events does it have", "history",
     "history of empac", "west hall", "where is it", "sagx", "gym",
     "", "Quit", " EXIT ", "goodbye", "its design", "its use today"}

\* line 71 for each text main() can pass: the resolver reads nothing but its
\* argument, so its value on a text is computed once
match_result == [text \in {Strip(line) : line \in ConsoleLines} |->
                    _fuzzy_match_landmark(text)]

NotRun == [not_run |-> TRUE]
NotAsked == [kind |-> "not asked"]

\* the record of a process_input call that has only logged the utterance
Called(ctx, user_input) ==
    [user_input |-> user_input, topic_before |-> ctx.current_topic,
     facet |-> None, match_result |-> NotRun, reply |-> NotAsked,
     path |-> None, response |-> None, raised |-> None]

\* Unmatched with the topic cleared when the fallback message is returned
UnmatchedClearsTopic(ctx, call, reply, n) ==
    [context |-> [ctx EXCEPT !.current_topic = IF n.answered THEN n.topic
                                               ELSE None],
     turn |-> [call EXCEPT !.match_result = NoneDict,
                           !.reply = reply,
                           !.path = IF n.answered THEN "noisy" ELSE "fallback",
                           !.response = IF n.answered THEN n.response
                                        ELSE FallbackMessage]]

\* lines 73-83: the resolver found nothing and the service was asked
Unmatched(ctx, call, reply, n) ==
    [context |-> [ctx EXCEPT !.current_topic = n.topic],
     turn |-> [call EXCEPT !.match_result = NoneDict,
                           !.reply = reply,
                           !.path = IF n.answered THEN "noisy" ELSE "fallback",
                           !.response = IF n.answered THEN n.response
                                        ELSE FallbackMessage]]

\* Matched without the assignment of line 87
MatchedKeepTopic(ctx, call, match, info) ==
    [context |-> ctx,
     turn |-> [call EXCEPT !.match_result = match, !.path = "resolved",
                           !.response = _generate_basic_response(match.landmark,
                                                                 info)]]

\* lines 85-94: the resolver found a landmark, whose record is info
Matched(ctx, call, match, info) ==
    [context |-> [ctx EXCEPT !.current_topic = match.landmark],
     turn |->
        IF match.is_fuzzy
        THEN IF "name" \notin DOMAIN info       \* info['name'] raises KeyError
             THEN [call EXCEPT !.match_result = match,
                               !.path = "resolved", !.raised = "KeyError"]
             ELSE [call EXCEPT !.match_result = match,
                               !.path = "resolved",
                               !.response =
                                   "I think you might be referring to "
                                   \o info.name \o ". "
                                   \o _generate_basic_response(
                                          match.landmark, info)]
        ELSE [call EXCEPT !.match_result = match,
                          !.path = "resolved",
                          !.response = _generate_basic_response(
                                           match.landmark, info)]]

\* lines 70-94, given what the resolver returned
AfterMatch(kn, ctx, call, reply, match) ==
    IF match = NoneDict
    THEN Unmatched(ctx, call, reply,
                   NoisyAttempt(kn, ctx.current_topic, _analyze_noisy_input(reply)))
    ELSE Matched(ctx, call, match,
                 Get(kn, match.landmark, EmptyDict))

\* lines 63-94, given what the follow-up handler returned (None without topic)
AfterFollowup(kn, ctx, call, reply, followup) ==
    IF followup # None /\ followup # ""
    THEN [context |-> [ctx EXCEPT !.conversation_history =
                          Append(@, [role |-> "assistant", content |-> followup])],
          turn |-> [call EXCEPT
                      !.facet = FollowupFacet(call.topic_before, call.user_input),
                      !.path = "followup", !.response = followup]]
    ELSE AfterMatch(kn, ctx, call, reply, match_result[call.user_input])

\* line 61
Logged(ctx, user_input) ==
    [ctx EXCEPT !.conversation_history =
                    Append(@, [role |-> "user", content |-> user_input])]

\* RPIChatbot.process_input on the context ctx with the service answering
\* reply if asked: the context it leaves and the record of the call
\* (response = None and raised set when it raises)
process_input(kn, ctx, user_input, reply) ==
    AfterFollowup(kn, Logged(ctx, user_input), Called(ctx, user_input), reply,
                  IF ctx.current_topic # None
                  THEN _handle_followup(kn, ctx.current_topic, user_input)
                  ELSE None)

(***************************************************************************)
(* The knowledge stores of the model                                       *)
(***************************************************************************)

RussellSage ==
    [name |-> "Sage Lab", built |-> "1909", significance |-> "the first lab",
     history |-> [original_purpose |-> "a lab", builder |-> "Olivia Sage",
                  timeline |-> <<[year |-> "1909", event |-> "opened"],
                                 [year |-> "1985", event |-> "renovated"]>>],
     namesake |-> [name |-> "Russell Sage", role |-> "a financier",
                   years |-> "1816"],
     architecture |-> [style |-> "Gothic", features |-> <<"towers", "arches">>,
                       architect |-> "Lawlor"],
     current_use |-> [departments |-> <<"ECSE", "CogSci">>,
                      facilities |-> <<"labs">>]]

WestHall ==
    [name |-> "West Hall", built |-> "1869",
     history |-> [evolution |-> "First a hospital.", origins |-> "1869",
                  significance |-> "a landmark"],
     architecture |-> [style |-> "Second Empire"],
     current_use |-> [department |-> "Arts"]]

Union ==
    [name |-> "RPI Union", established |-> "1890",
     significance |-> "student-run",
     events |-> <<"concerts", "fairs">>,
     features |-> [student_activities |-> [clubs |-> "200 clubs",
                                           types |-> <<"sports", "media">>],
                   facilities |-> <<"pub", "bookstore">>],
     management |-> "student-run union",
     history |-> [origins |-> "1890"]]

\* a union record with neither an events list nor a features sub-record
UnionBare == [name |-> "RPI Union", established |-> "1890"]

\* a union record whose features hold facilities only
UnionRooms == [name |-> "RPI Union", features |-> [facilities |-> <<"pub">>]]

Folsom ==
    [name |-> "Folsom Library", dedicated |-> "1976",
     namesake |-> Str("Richard Folsom"),
     current_use |-> Str("the library")]

\* a record without a display name
FolsomNameless == [dedicated |-> "1976"]

Empac ==
    [name |-> "EMPAC", established |-> "2008", significance |-> "a venue",
     architecture |-> [features |-> <<"a hull">>]]

Keys == {"russell_sage", "west_hall", "rpi_union", "folsom_library", "empac"}

KnowledgeBases ==
    { [russell_sage |-> RussellSage, west_hall |-> WestHall, rpi_union |-> Union,
       folsom_library |-> Folsom, empac |-> Empac],
      [russell_sage |-> RussellSage, west_hall |-> WestHall, rpi_union |-> UnionBare,
       folsom_library |-> FolsomNameless, empac |-> Empac],
      [west_hall |-> WestHall, rpi_union |-> UnionRooms, empac |-> Empac] }

(***************************************************************************)
(* The console loop of main() around process_input                         *)
(***************************************************************************)

MaxTurns == 2

Replies(line) ==
    {[kind |-> "error"], [kind |-> "text"], [kind |-> "null"],
     [kind |-> "object", value |-> [landmark |-> None, original |-> line,
                                    confidence |-> "low", reasoning |-> "none"]],
     [kind |-> "object", value |-> [landmark |-> "empac", original |-> line,
                                    confidence |-> "high", reasoning |-> "gym"]],
     [kind |-> "object", value |-> [landmark |-> "empac"]],
     [kind |-> "object", value |-> [landmark |-> "folsom_library", original |-> line,
                                    confidence |-> "low", reasoning |-> "books"]],
     [kind |-> "object", value |-> [landmark |-> "chapel", original |-> line,
                                    confidence |-> "low", reasoning |-> "guess"]]}

ExitWords == {"quit", "exit", "bye"}

Apology == "I apologize, but I encountered an error. Please try again."
Goodbye == "Thank you for chatting about RPI history! Goodbye!"

\* number of process_input calls so far: each logs one user utterance
Turns(ctx) ==
    Cardinality({n \in DOMAIN ctx.conversation_history :
                    ctx.conversation_history[n].role = "user"})

NoCall ==
    [user_input |-> None, topic_before |-> None, facet |-> None,
     match_result |-> NotRun, reply |-> NotAsked, path |-> None,
     response |-> None, raised |-> None, printed |-> None]

\* RPIChatbot.__init__ and the start of main()
Init ==
    /\ knowledge \in KnowledgeBases
    /\ context = [current_topic |-> None, current_subtopic |-> None,
                  conversation_history |-> <<>>]
    /\ turn = NoCall
    /\ pc = "loop"
    /\ arg = None
    /\ ret = None

\* one iteration of the loop on an exit keyword; arg is the line read
Exit(line) ==
    /\ pc = "loop"
    /\ Lower(Strip(line)) \in ExitWords
    /\ pc' = "exited"
    /\ arg' = line
    /\ turn' = [NoCall EXCEPT !.path = "exit", !.printed = Goodbye]
    /\ UNCHANGED <<knowledge, context, ret>>

\* lines 40-41 and 46-48: the response is printed, or the apology if the call
\* raised
Printed(out) ==
    /\ context' = out.context
    /\ turn' = [user_input |-> out.turn.user_input,
                topic_before |-> out.turn.topic_before,
                facet |-> out.turn.facet,
                match_result |-> out.turn.match_result,
                reply |-> out.turn.reply,
                path |-> out.turn.path,
                response |-> out.turn.response,
                raised |-> out.turn.raised,
                printed |-> IF out.turn.raised # None THEN Apology
                            ELSE out.turn.response]

\* Turn with the exit keywords compared without lowercasing the line
TurnCaseSensitive(line, reply) ==
    /\ pc = "loop"
    /\ Turns(context) < MaxTurns
    /\ Strip(line) \notin ExitWords
    /\ arg' = line
    /\ Printed(process_input(knowledge, context, Strip(line), reply))
    /\ UNCHANGED <<knowledge, pc, ret>>

\* one iteration of the loop on any other line; arg is the line read
Turn(line, reply) ==
    /\ pc = "loop"
    /\ Turns(context) < MaxTurns
    /\ Lower(Strip(line)) \notin ExitWords
    /\ arg' = line
    /\ Printed(process_input(knowledge, context, Strip(line), reply))
    /\ UNCHANGED <<knowledge, pc, ret>>

\* KeyboardInterrupt while waiting for input: no line is read
Interrupt ==
    /\ pc = "loop"
    /\ pc' = "exited"
    /\ arg' = None
    /\ turn' = [NoCall EXCEPT !.path = "interrupt", !.printed = "Goodbye!"]
    /\ UNCHANGED <<knowledge, context, ret>>

Next ==
    \/ \E line \in ConsoleLines : Exit(line)
    \/ \E line \in ConsoleLines : \E reply \in Replies(Strip(line)) : Turn(line, reply)
    \/ Interrupt

Spec == Init /\ [][Next]_vars

(***************************************************************************)
(* The resolver on its own: _fuzzy_match_landmark applied to one text      *)
(***************************************************************************)

MaxCasePos == 3

LowerToUpper ==
    [a |-> "A", b |-> "B", c |-> "C", d |-> "D", e |-> "E", f |-> "F",
     g |-> "G", h |-> "H", i |-> "I", j |-> "J", k |-> "K", l |-> "L",
     m |-> "M", n |-> "N", o |-> "O", p |-> "P", q |-> "Q", r |-> "R",
     s |-> "S", t |-> "T", u |-> "U", v |-> "V", w |-> "W", x |-> "X",
     y |-> "Y", z |-> "Z"]

UpperChar(c) == IF c \in DOMAIN LowerToUpper THEN LowerToUpper[c] ELSE c

\* s with the characters at the positions of ps (counted from 0) in upper case
RECURSIVE UpperAt(_, _, _)
UpperAt(s, ps, i) ==
    IF i >= Len(s) THEN ""
    ELSE (IF i \in ps THEN UpperChar(CharAt(s, i)) ELSE CharAt(s, i))
         \o UpperAt(s, ps, i + 1)

\* an alias table entry written in another letter case: some of its first
\* MaxCasePos characters in upper case, or all of them
CaseVariants(n) ==
    {UpperAt(landmarks[n][1], ps, 0) : ps \in SUBSET (0..(MaxCasePos - 1))}
    \cup {UpperAt(landmarks[n][1], 0..Len(landmarks[n][1]), 0)}

\* what replaces the corrupted character ("" deletes it)
CorruptChars == {"", "a", "e", "m", "x"}

\* an alias with the character at one position replaced
CorruptedVariants(n) ==
    {Slice(landmarks[n][1], 0, i) \o c
        \o Slice(landmarks[n][1], i + 1, Len(landmarks[n][1])) :
        <<i, c>> \in {q \in (0..(Len(landmarks[n][1]) - 1)) \X CorruptChars :
                        q[2] # CharAt(landmarks[n][1], q[1])}}

FreeTexts ==
    {"", "tell me about", "what about", "z", "x", "q", "folsum libary",
     "folsom library", "gym", "the chapel", "hello there", "where is it",
     "tell me about sage lab", "Tell me about the Union "}

ResolverInputs ==
    {[kind |-> "alias", alias |-> n, text |-> t] :
        <<n, t>> \in {q \in (DOMAIN landmarks) \X
                              (UNION {CaseVariants(k) : k \in DOMAIN landmarks}) :
                        q[2] \in CaseVariants(q[1])}}
    \cup {[kind |-> "corrupt", alias |-> n, text |-> t] :
        <<n, t>> \in {q \in (DOMAIN landmarks) \X
                              (UNION {CorruptedVariants(k) : k \in DOMAIN landmarks}) :
                        q[2] \in CorruptedVariants(q[1])}}
    \cup {[kind |-> "text", alias |-> 0, text |-> t] : t \in FreeTexts}

InitResolve ==
    /\ knowledge = EmptyDict
    /\ context = [current_topic |-> None, current_subtopic |-> None,
                  conversation_history |-> <<>>]
    /\ turn = NoCall
    /\ pc = "resolve"
    /\ arg \in ResolverInputs
    /\ ret = None

\* the call _fuzzy_match_landmark(arg.text)
Resolve ==
    /\ pc = "resolve"
    /\ ret' = FuzzyMatchRun(arg.text)
    /\ pc' = "resolved"
    /\ UNCHANGED <<knowledge, context, turn, arg>>

NextResolve == Resolve

SpecResolve == InitResolve /\ [][NextResolve]_vars

(***************************************************************************)
(* Properties of the resolver, checked under SpecResolve                   *)
(***************************************************************************)

\* C4: every alias of the table, written in any letter case, resolves to the
\* landmark the table maps it to, flagged exact (is_fuzzy = False).
C4_AliasResolvesExact ==
    (pc = "resolved" /\ arg.kind = "alias") =>
        ret.result = [landmark |-> landmarks[arg.alias][2], is_fuzzy |-> FALSE]

\* "SAGE" is first accepted by the alias "russell sage", which contains it
C4_Witness ==
    /\ pc = "resolved" /\ arg.kind = "alias" /\ arg.text = "SAGE"
    /\ ret.result = [landmark |-> "russell_sage", is_fuzzy |-> FALSE]

\* C5 as claimed: "folsum libary" has no containment match, is accepted by the
\* fuzzy-score step and returns folsom_library flagged fuzzy.
C5_Original ==
    (pc = "resolved" /\ arg.text = "folsum libary") =>
        /\ ExactHits(ret.query) = {}
        /\ ret.result = [landmark |-> "folsom_library", is_fuzzy |-> TRUE]

\* C5 as amended: "folsum libary" contains the alias "folsum", so the first
\* loop accepts it, the fuzzy-score step is not run, and the result is the
\* identifier of "folsom library", folsom_library, flagged exact.
C5_Amended ==
    (pc = "resolved" /\ arg.text = "folsum libary") =>
        /\ Contains(ret.query, "folsum")
        /\ ret.ratios = <<>>
        /\ ret.result = [landmark |-> "folsom_library", is_fuzzy |-> FALSE]
        /\ ret.result = _fuzzy_match_landmark("folsom library")

C5_Witness ==
    /\ pc = "resolved" /\ arg.text = "folsum libary"
    /\ ret.query = "folsum libary"
    /\ ret.result # NoneDict

\* the largest element of a non-empty sequence of numbers, and where it first
\* occurs
SeqMax(seq) == CHOOSE v \in {seq[n] : n \in DOMAIN seq} :
                   \A n \in DOMAIN seq : seq[n] <= v
FirstAt(seq, v) == CHOOSE n \in DOMAIN seq :
                       seq[n] = v /\ \A k \in DOMAIN seq : seq[k] = v => n <= k

\* the best similarity score of a query against the alias table
BestScore(query) ==
    SeqMax([n \in DOMAIN landmarks |-> partial_ratio(query, landmarks[n][1])])

\* C6 as claimed: a single-character corruption of an alias resolves to the
\* alias's own landmark flagged fuzzy when the best score exceeds the
\* threshold and to no match otherwise, never to the exact flag or to
\* another landmark.
C6_Original ==
    (pc = "resolved" /\ arg.kind = "corrupt") =>
        IF BestScore(ret.query) > Threshold
        THEN ret.result = [landmark |-> landmarks[arg.alias][2], is_fuzzy |-> TRUE]
        ELSE ret.result = NoneDict

\* C6 as amended: a corrupted alias that contains or is contained in some alias
\* is returned flagged exact by the first loop, without scoring; any other is
\* scored against all aliases and returns, flagged fuzzy, the landmark of the
\* first alias that reaches the best score when that score exceeds the
\* threshold, and no match when it does not.  The landmark need not be the
\* corrupted alias's own.
C6_Amended ==
    (pc = "resolved" /\ arg.kind = "corrupt") =>
        IF ExactHits(ret.query) # {}
        THEN /\ ret.ratios = <<>>
             /\ ret.result # NoneDict
             /\ ret.result.is_fuzzy = FALSE
        ELSE /\ Len(ret.ratios) = Len(landmarks)
             /\ IF SeqMax(ret.ratios) > Threshold
                THEN ret.result =
                        [landmark |->
                            landmarks[FirstAt(ret.ratios, SeqMax(ret.ratios))][2],
                         is_fuzzy |-> TRUE]
                ELSE ret.result = NoneDict

\* "same", from "sage", scores best (86) against "folsam"
C6_Witness ==
    /\ pc = "resolved" /\ arg.kind = "corrupt"
    /\ arg.alias = 6 /\ arg.text = "same"
    /\ ret.result = [landmark |-> "folsom_library", is_fuzzy |-> TRUE]

(***************************************************************************)
(* Properties of the turn pipeline, checked under Spec                     *)
(***************************************************************************)

\* C1: with a current topic X, a turn whose text is "history" is answered by
\* the follow-up path with the history facet of X's record, without running
\* the resolver, and the current topic is still X.
C1_HistoryFollowup ==
    (turn.user_input = "history" /\ turn.topic_before # None) =>
        /\ turn.path = "followup"
        /\ turn.facet = "history"
        /\ turn.response =
               _get_history_info(Get(knowledge, turn.topic_before, EmptyDict))
        /\ turn.match_result = NotRun
        /\ turn.raised = None
        /\ context.current_topic = turn.topic_before

C1_Witness ==
    /\ turn.user_input = "history"
    /\ turn.topic_before = "rpi_union"
    /\ turn.path = "followup"
    /\ context.current_topic = "rpi_union"
    /\ Turns(context) = 2

EventWords == {"event", "activities", "programs"}

\* C2: with the union as the current topic, a turn whose text has an events
\* keyword is answered by the union's events facet whatever the union record
\* holds; the resolver is not run and the topic stays rpi_union.
C2_UnionEvents ==
    (turn.topic_before = "rpi_union"
     /\ AnyIn(Lower(turn.user_input), EventWords)) =>
        /\ turn.path = "followup"
        /\ turn.facet = "events"
        /\ turn.match_result = NotRun
        /\ context.current_topic = "rpi_union"

\* the landmarks whose aliases occur in a lowercased text
Named(text) ==
    {landmarks[n][2] : n \in {k \in DOMAIN landmarks :
                                 Contains(text, landmarks[k][1])}}

\* C3 as claimed: with a current topic X, a turn whose text names only another
\* landmark Y leaves Y as the current topic, whatever else the text holds.
\* (The text is read as the resolver normalizes it, which favours the claim.)
C3_Original ==
    (turn.topic_before # None
     /\ Cardinality(Named(Normalize(turn.user_input))) = 1
     /\ turn.topic_before \notin Named(Normalize(turn.user_input))) =>
        context.current_topic \in Named(Normalize(turn.user_input))

\* C3 as amended: with a current topic X, a turn whose text, normalized as the
\* resolver normalizes it, names only another landmark Y leaves Y as the
\* current topic unless the follow-up handler answers the turn (a facet
\* keyword of X with a non-empty rendering); then the topic stays X and the
\* resolver is not run.
C3_Amended ==
    (turn.topic_before # None
     /\ Cardinality(Named(Normalize(turn.user_input))) = 1
     /\ turn.topic_before \notin Named(Normalize(turn.user_input))) =>
        IF turn.path = "followup"
        THEN /\ context.current_topic = turn.topic_before
             /\ turn.match_result = NotRun
             /\ FollowupFacet(turn.topic_before, turn.user_input) # None
        ELSE /\ context.current_topic \in Named(Normalize(turn.user_input))
             /\ turn.path = "resolved"

\* the union's events facet renders empty, so "what events does it have" is
\* resolved, by its "wh", to West Hall
C3_Witness ==
    /\ turn.topic_before = "rpi_union"
    /\ turn.user_input = "what events does it have"
    /\ turn.path = "resolved"
    /\ context.current_topic = "west_hall"

\* the service named a landmark that process_input can render
ServiceFound(kn, reply) ==
    /\ reply.kind = "object"
    /\ Get(reply.value, "landmark", None) # None
    /\ "original" \in DOMAIN reply.value
    /\ reply.value.landmark \in DOMAIN kn
    /\ "name" \in DOMAIN kn[reply.value.landmark]

\* C7: a text that contains no alias and scores at or below the threshold
\* against every alias gets no match from the resolver, and the turn returns
\* the fallback message exactly when the service fails or finds nothing.
C7_NoAliasNoMatch ==
    (turn.match_result # NotRun
     /\ Named(Lower(turn.user_input)) = {}
     /\ BestScore(Normalize(turn.user_input)) <= Threshold) =>
        /\ turn.match_result = NoneDict
        /\ (turn.response = FallbackMessage
                <=> ~ServiceFound(knowledge, turn.reply))

\* C8: when the resolver finds nothing and the service call fails (raises,
\* replies with non-JSON, null or an incomplete object, or names a key with no
\* usable record), process_input does not raise, returns the fallback message
\* and leaves the current topic as it was.
C8_ServiceBestEffort ==
    (turn.reply # NotAsked /\ ~ServiceFound(knowledge, turn.reply)) =>
        /\ turn.match_result = NoneDict
        /\ turn.raised = None
        /\ turn.response = FallbackMessage
        /\ turn.printed = FallbackMessage
        /\ context.current_topic = turn.topic_before

\* the service names "chapel", which has no record, while a topic is set
C8_Witness ==
    /\ turn.reply.kind = "object"
    /\ Get(turn.reply.value, "landmark", None) = "chapel"
    /\ turn.topic_before = "west_hall"
    /\ turn.response = FallbackMessage
    /\ context.current_topic = "west_hall"

\* C9: when the resolver returns a landmark without a record, the turn returns
\* the generic "trouble accessing it" sentence and does not raise, for an
\* exact and for a fuzzy match.
C9_AbsentRecord ==
    (turn.path = "resolved"
     /\ turn.match_result.landmark \notin DOMAIN knowledge) =>
        /\ turn.raised = None
        /\ turn.response = TroubleMessage

(***************************************************************************)
(* The history renderer on its own: _get_history_info applied to a record  *)
(***************************************************************************)

MaxTimeline == 2

Chronicle ==
    <<[year |-> "1824", event |-> "founded"],
      [year |-> "1869", event |-> "built"],
      [year |-> "1909", event |-> "opened"],
      [year |-> "1985", event |-> "renovated"]>>

\* the timelines of at most MaxTimeline entries
Timelines ==
    {SubSeq(Chronicle, 1, k) :
        k \in 0..(IF MaxTimeline < Len(Chronicle) THEN MaxTimeline
                  ELSE Len(Chronicle))}

HistoryFields ==
    {"evolution", "origins", "original_purpose", "builder", "timeline",
     "significance"}

\* a history sub-record with the fields fs, "namesake" possibly among them
HistoryRecord(fs, timeline) ==
    [f \in fs |->
        CASE f = "evolution"        -> "First a hospital."
          [] f = "origins"          -> "1869"
          [] f = "original_purpose" -> "a lab"
          [] f = "builder"          -> "Olivia Sage"
          [] f = "timeline"         -> timeline
          [] f = "significance"     -> "a landmark"
          [] f = "namesake"         -> [name |-> "Amos Eaton"]]

\* what a record may hold under "namesake"
Namesakes ==
    {Str("Russell Sage"),
     [name |-> "Russell Sage"],
     [name |-> "Russell Sage", role |-> "a financier"],
     [name |-> "Russell Sage", years |-> "1816"],
     [name |-> "Russell Sage", role |-> "a financier", years |-> "1816"]}

\* a landmark record with the top-level keys ks
HistoryInput(ks, fs, timeline, namesake) ==
    [k \in ks |->
        CASE k = "name"     -> "West Hall"
          [] k = "history"  -> HistoryRecord(fs, timeline)
          [] k = "namesake" -> namesake]

HistoryInputs ==
    {HistoryInput(ks, fs, timeline, namesake) :
        ks \in SUBSET {"name", "history", "namesake"},
        fs \in SUBSET (HistoryFields \cup {"namesake"}),
        timeline \in Timelines,
        namesake \in Namesakes}

InitHistory ==
    /\ knowledge = EmptyDict
    /\ context = [current_topic |-> None, current_subtopic |-> None,
                  conversation_history |-> <<>>]
    /\ turn = NoCall
    /\ pc = "render"
    /\ arg \in HistoryInputs
    /\ ret = None

\* the call _get_history_info(arg)
Render ==
    /\ pc = "render"
    /\ ret' = _get_history_info(arg)
    /\ pc' = "rendered"
    /\ UNCHANGED <<knowledge, context, turn, arg>>

NextHistory == Render

SpecHistory == InitHistory /\ [][NextHistory]_vars

\* the text that opens the part of each history sub-field, in the fixed order
RECURSIVE EntryMarks(_)
EntryMarks(timeline) ==
    IF timeline = <<>> THEN <<>>
    ELSE <<"- " \o timeline[1].year \o ": " \o timeline[1].event>>
         \o EntryMarks(Tail(timeline))

Marks(info, namesake_there) ==
    (IF "evolution" \in DOMAIN info.history THEN <<info.history.evolution>>
     ELSE <<>>)
    \o (IF "origins" \in DOMAIN info.history
        THEN <<"Its origins date back to ">> ELSE <<>>)
    \o (IF "original_purpose" \in DOMAIN info.history
        THEN <<"'s original purpose was as ">> ELSE <<>>)
    \o (IF "builder" \in DOMAIN info.history
        THEN <<"It was built by ">> ELSE <<>>)
    \o (IF "timeline" \in DOMAIN info.history
        THEN <<"Key events in its history include:">>
             \o EntryMarks(info.history.timeline)
        ELSE <<>>)
    \o (IF "significance" \in DOMAIN info.history
        THEN <<"It is historically significant as ">> ELSE <<>>)
    \o (IF namesake_there THEN <<"It was named after ">> ELSE <<>>)

\* every mark occurs in the text, each after the one before
InOrder(text, marks) ==
    /\ \A n \in DOMAIN marks : Find(text, marks[n]) # -1
    /\ \A n \in DOMAIN marks :
          n > 1 => Find(text, marks[n - 1]) < Find(text, marks[n])

Utterances(ctx) ==
    {ctx.conversation_history[n].content :
        n \in {k \in DOMAIN ctx.conversation_history :
                  ctx.conversation_history[k].role = "user"}}

\* C11: an exception raised by process_input in a turn is caught at the loop
\* boundary: the apology is printed and the loop stays at the prompt.  The
\* loop ends only on a line that, trimmed and lowercased, is quit, exit or bye,
\* or on a keyboard interrupt; such a line always ends it and is never passed
\* to process_input.
C11_LoopSurvives ==
    [][/\ turn'.raised # None => (pc' = "loop" /\ turn'.printed = Apology)
       /\ pc' # pc =>
             /\ pc = "loop" /\ pc' = "exited"
             /\ \/ turn'.path = "interrupt"
                \/ /\ turn'.path = "exit"
                   /\ Lower(Strip(arg')) \in ExitWords
       /\ (arg' # None /\ Lower(Strip(arg')) \in ExitWords) =>
             /\ pc' = "exited"
             /\ Utterances(context') = Utterances(context)
       /\ \A text \in Utterances(context') : Lower(text) \notin ExitWords
       /\ Turns(context') > Turns(context) =>
             /\ pc' = "loop"
             /\ turn'.user_input = Strip(arg')
             /\ turn'.printed = IF turn'.raised # None THEN Apology
                                ELSE turn'.response]_vars

\* the first turn, "sagx", raised KeyError (no russell_sage record), and the
\* loop has gone on to process "goodbye" as the second turn
C11_Witness ==
    /\ "russell_sage" \notin DOMAIN knowledge
    /\ Turns(context) = 2
    /\ context.conversation_history[1].content = "sagx"
    /\ turn.user_input = "goodbye"
    /\ turn.raised = None
    /\ turn.printed = turn.response
    /\ pc = "loop"

(***************************************************************************)
(* Properties of the follow-up interpretation, checked under Spec          *)
(***************************************************************************)

HistoryWords == {"history", "background", "past", "origin"}
ArchitectureWords == {"architecture", "design", "building", "structure"}
CurrentUseWords == {"current", "now", "today", "use", "purpose"}
UnionWords == {"event", "activities", "programs", "facilities", "rooms", "spaces"}

\* the turn was answered by the follow-up path with this facet of the current
\* topic's record, without resolving and without changing the topic
AnsweredWith(facet, rendering) ==
    /\ turn.path = "followup"
    /\ turn.facet = facet
    /\ turn.response = rendering
    /\ turn.match_result = NotRun
    /\ context.current_topic = turn.topic_before

\* C12: with any current topic, the union included, a turn with an
\* architecture keyword and no history keyword is answered with the
\* architecture facet of the topic's record, and a turn with a current-use
\* keyword and no history or architecture keyword with its current-use facet
\* (for the union, when none of its own keywords comes first); the turn is not
\* resolved and the topic is unchanged.
C12_FacetFollowup ==
    (turn.topic_before # None /\ turn.user_input # None
     /\ ~AnyIn(Lower(turn.user_input), HistoryWords)
     /\ (turn.topic_before = "rpi_union"
            => ~AnyIn(Lower(turn.user_input), UnionWords))) =>
        /\ AnyIn(Lower(turn.user_input), ArchitectureWords) =>
              AnsweredWith("architecture",
                           _get_architecture_info(
                               Get(knowledge, turn.topic_before, EmptyDict)))
        /\ (AnyIn(Lower(turn.user_input), CurrentUseWords)
            /\ ~AnyIn(Lower(turn.user_input), ArchitectureWords)) =>
              AnsweredWith("current_use",
                           _get_current_use_info(
                               Get(knowledge, turn.topic_before, EmptyDict)))

\* the same for the topics other than the union, where the claim's case does
\* happen
C12_OtherTopics ==
    turn.topic_before # "rpi_union" => C12_FacetFollowup

C12_OtherTopicsReached ==
    /\ turn.topic_before = "west_hall"
    /\ turn.user_input = "its design"
    /\ AnsweredWith("architecture", _get_architecture_info(knowledge.west_hall))

(***************************************************************************)
(* Properties of the topic field, checked under Spec                       *)
(***************************************************************************)

\* the landmark identifiers: those of the alias table and the keys of the
\* knowledge store
Identifiers(kn) == {landmarks[n][2] : n \in DOMAIN landmarks} \cup DOMAIN kn

\* C13: the current topic starts as null; once it is a landmark identifier no
\* step makes it null again, whether the turn ends in a response, in the
\* fallback message or in an exception: it changes only by being overwritten
\* with a landmark identifier.
C13_TopicNeverCleared ==
    /\ context.current_topic = None
    /\ [][/\ context.current_topic # None => context'.current_topic # None
          /\ context'.current_topic # context.current_topic =>
                context'.current_topic \in Identifiers(knowledge)]_vars

\* with West Hall as the topic, a turn that raised KeyError after line 87 had
\* overwritten the topic with russell_sage
C13_Witness ==
    /\ turn.topic_before = "west_hall"
    /\ turn.raised = "KeyError"
    /\ context.current_topic = "russell_sage"
    /\ pc = "loop"

====
